---- MODULE Spec2Model ----
(***************************************************************************)
(* A model of safe_angles.hpp (namespace mkp::trigo): the tagged angle     *)
(* value angle_unit<T, Tag>, the angle_cast overload set and the functions *)
(* and adapters built on it.                                               *)
(*                                                                         *)
(* The header is a template library, so two things are modelled:           *)
(*   - what the compiler does with an expression (which overload a call    *)
(*     resolves to, or why the call is ill-formed), as pure operators over *)
(*     type descriptions;                                                  *)
(*   - what the selected code computes, over IEEE-754 binary32 / binary64  *)
(*     payloads (round to nearest, ties to even), with natural numbers     *)
(*     wider than TLC's 32-bit integers kept as sequences of limbs.       *)
(***************************************************************************)
EXTENDS Integers, Sequences, FiniteSets, TLC

(***************************************************************************)
(* Natural numbers of any width: little-endian sequences of limbs in base  *)
(* 2^15, without leading zero limbs (zero is the empty sequence).          *)
(***************************************************************************)
Base == 2 ^ 15

RECURSIVE IntBitLen(_)
IntBitLen(n) == IF n = 0 THEN 0 ELSE 1 + IntBitLen(n \div 2)

LimbBits == IntBitLen(Base) - 1

RECURSIVE Pow2(_)
Pow2(n) == IF n = 0 THEN 1 ELSE 2 * Pow2(n - 1)

RECURSIVE BNorm(_)
BNorm(a) ==
    IF a = << >> THEN << >>
    ELSE IF a[Len(a)] = 0 THEN BNorm(SubSeq(a, 1, Len(a) - 1))
    ELSE a

RECURSIVE BFromInt(_)
BFromInt(n) == IF n = 0 THEN << >> ELSE << n % Base >> \o BFromInt(n \div Base)

BHead(a) == IF a = << >> THEN 0 ELSE Head(a)

BTail(a) == IF a = << >> THEN << >> ELSE Tail(a)

RECURSIVE BCmpFrom(_, _, _)
BCmpFrom(a, b, i) ==
    IF i = 0 THEN 0
    ELSE IF a[i] < b[i] THEN -1
    ELSE IF a[i] > b[i] THEN 1
    ELSE BCmpFrom(a, b, i - 1)

BCmp(a, b) ==
    IF Len(a) < Len(b) THEN -1
    ELSE IF Len(a) > Len(b) THEN 1
    ELSE BCmpFrom(a, b, Len(a))

RECURSIVE BAddC(_, _, _)
BAddC(a, b, c) ==
    IF a = << >> /\ b = << >>
    THEN (IF c = 0 THEN << >> ELSE << c >>)
    ELSE LET x == BHead(a) + BHead(b) + c
         IN  << x % Base >> \o BAddC(BTail(a), BTail(b), x \div Base)

BAdd(a, b) == BAddC(a, b, 0)

RECURSIVE BSubC(_, _, _)
BSubC(a, b, c) ==
    IF a = << >> THEN << >>
    ELSE LET x == Head(a) - BHead(b) - c
         IN  IF x < 0
             THEN << x + Base >> \o BSubC(Tail(a), BTail(b), 1)
             ELSE << x >> \o BSubC(Tail(a), BTail(b), 0)

\* a - b, for a >= b
BSub(a, b) == BNorm(BSubC(a, b, 0))

RECURSIVE BMulSmallC(_, _, _)
BMulSmallC(a, k, c) ==
    IF a = << >> THEN (IF c = 0 THEN << >> ELSE << c >>)
    ELSE LET x == Head(a) * k + c
         IN  << x % Base >> \o BMulSmallC(Tail(a), k, x \div Base)

\* a * k, for 0 <= k < Base
BMulSmall(a, k) == IF k = 0 THEN << >> ELSE BMulSmallC(a, k, 0)

RECURSIVE BMul(_, _)
BMul(a, b) ==
    IF a = << >> \/ b = << >> THEN << >>
    ELSE BAdd(BMulSmall(a, Head(b)), BNorm(<< 0 >> \o BMul(a, Tail(b))))

RECURSIVE BZeros(_)
BZeros(n) == IF n = 0 THEN << >> ELSE << 0 >> \o BZeros(n - 1)

\* a * 2^n
BShl(a, n) ==
    IF a = << >> THEN << >>
    ELSE BZeros(n \div LimbBits) \o BMulSmall(a, Pow2(n % LimbBits))

RECURSIVE BShrBits(_, _)
BShrBits(a, r) ==
    IF a = << >> THEN << >>
    ELSE << (Head(a) \div Pow2(r))
            + (BHead(Tail(a)) % Pow2(r)) * Pow2(LimbBits - r) >>
         \o BShrBits(Tail(a), r)

\* a \div 2^n
BShr(a, n) ==
    IF n \div LimbBits >= Len(a) THEN << >>
    ELSE BNorm(BShrBits(SubSeq(a, n \div LimbBits + 1, Len(a)), n % LimbBits))

\* a % 2^n
BLow(a, n) ==
    IF n \div LimbBits >= Len(a) THEN a
    ELSE BNorm(SubSeq(a, 1, n \div LimbBits)
               \o << a[n \div LimbBits + 1] % Pow2(n % LimbBits) >>)

BBitLen(a) ==
    IF a = << >> THEN 0 ELSE LimbBits * (Len(a) - 1) + IntBitLen(a[Len(a)])

BIsOdd(a) == a # << >> /\ Head(a) % 2 = 1

BBit(a, i) ==
    IF i \div LimbBits >= Len(a) THEN 0
    ELSE (a[i \div LimbBits + 1] \div Pow2(i % LimbBits)) % 2

RECURSIVE BTrailingZeros(_)
BTrailingZeros(a) ==
    IF a = << >> THEN 0
    ELSE IF Head(a) = 0 THEN LimbBits + BTrailingZeros(Tail(a))
    ELSE IF Head(a) % 2 = 1 THEN 0
    ELSE 1 + BTrailingZeros(<< Head(a) \div 2 >>)

\* the largest q in lo .. hi with d * q <= r (d * lo <= r)
RECURSIVE QuotDigit(_, _, _, _)
QuotDigit(r, d, lo, hi) ==
    IF lo = hi THEN lo
    ELSE LET mid == (lo + hi + 1) \div 2
         IN  IF BCmp(BMulSmall(d, mid), r) <= 0
             THEN QuotDigit(r, d, mid, hi)
             ELSE QuotDigit(r, d, lo, mid - 1)

\* Long division, a limb at a time: << quotient, remainder >> of the limbs
\* i .. Len(n) of n by d
RECURSIVE BDivModUpto(_, _, _)
BDivModUpto(n, d, i) ==
    IF i > Len(n) THEN << << >>, << >> >>
    ELSE LET hi == BDivModUpto(n, d, i + 1)
             r  == BNorm(<< n[i] >> \o hi[2])
             qd == QuotDigit(r, d, 0, Base - 1)
         IN  << BNorm(<< qd >> \o hi[1]), BSub(r, BMulSmall(d, qd)) >>

\* << quotient, remainder >> of n by d (d > 0)
BDivMod(n, d) == BDivModUpto(n, d, 1)

(***************************************************************************)
(* The floating-point types T of angle_unit<T, Tag> (std::floating_point): *)
(* float is IEEE-754 binary32, double is binary64.  A payload is           *)
(*   [k |-> "nan", s], [k |-> "inf", s], or [k |-> "fin", s, m, e]         *)
(* standing for (-1)^s * m * 2^e with m odd (or m = 0, e = 0 for a zero);  *)
(* s is the sign bit, which a NaN has too.                                 *)
(***************************************************************************)
FloatTypes == {"float", "double"}

\* std::numeric_limits<T>::digits
Digits(T) == IF T = "float" THEN 24 ELSE 53

\* std::numeric_limits<T>::max_exponent - 1
EMax(T) == IF T = "float" THEN 127 ELSE 1023

\* the exponent of the smallest subnormal
QMin(T) == IF T = "float" THEN -149 ELSE -1074

\* a NaN with sign bit s
NaN(s) == [k |-> "nan", s |-> s, m |-> << >>, e |-> 0]

\* The NaN an arithmetic operation yields: the operands do not determine the sign
\* bit (s is 2): the sign is the choice of the compiler and the processor.
QNaN == [k |-> "nan", s |-> 2, m |-> << >>, e |-> 0]

\* the payloads a result x stands for
Outcomes(x) == IF x.k = "nan" /\ x.s \notin {0, 1} THEN {NaN(0), NaN(1)} ELSE {x}

\* The NaN result of an arithmetic operation on x and y, one of them a NaN.
\* Its sign bit is not determined by the operands: the instruction keeps the
\* sign of the NaN operand it reads first, and the compiler may rewrite the
\* expression before (a * -1 to -a, a + (-c) to a - c for a constant c).
PropNaN(x, y) == QNaN

Inf(s) == [k |-> "inf", s |-> s, m |-> << >>, e |-> 0]

Zero(s) == [k |-> "fin", s |-> s, m |-> << >>, e |-> 0]

\* (-1)^s * m * 2^e with the trailing zero bits of m moved into e
Fin(s, m, e) ==
    IF m = << >> THEN Zero(s)
    ELSE LET tz == BTrailingZeros(m)
         IN  [k |-> "fin", s |-> s, m |-> BShr(m, tz), e |-> e + tz]

\* a small integer n as a payload (exact in both types for |n| < 2^24)
FromInt(n) ==
    IF n < 0 THEN Fin(1, BFromInt(-n), 0) ELSE Fin(0, BFromInt(n), 0)

IsNaN(x) == x.k = "nan"

IsZero(x) == x.k = "fin" /\ x.m = << >>

Max(a, b) == IF a >= b THEN a ELSE b

Min(a, b) == IF a <= b THEN a ELSE b

\* The value of type T nearest to (-1)^s * M * 2^E (M > 0), ties to even;
\* overflow gives an infinity, underflow a subnormal or a zero.
Round(T, s, M, E) ==
    LET q  == Max(E + BBitLen(M) - Digits(T), QMin(T))
        sh == q - E
        m0 == IF sh <= 0 THEN BShl(M, -sh) ELSE BShr(M, sh)
        c  == IF sh <= 0 THEN -1
              ELSE BCmp(BLow(M, sh), BShl(<< 1 >>, sh - 1))
        m1 == IF c > 0 \/ (c = 0 /\ BIsOdd(m0)) THEN BAdd(m0, << 1 >>) ELSE m0
    IN  IF m1 # << >> /\ q + BBitLen(m1) - 1 > EMax(T)
        THEN Inf(s)
        ELSE Fin(s, m1, q)

\* static_cast<T>(x) for a payload x of either type
Convert(T, x) == IF x.k = "fin" /\ x.m # << >> THEN Round(T, x.s, x.m, x.e) ELSE x

\* -x: the sign bit flipped
FNeg(x) == [x EXCEPT !.s = 1 - x.s]

\* the exponent just above the leading bit of a finite non-zero x
Top(x) == x.e + BBitLen(x.m)

\* x + y in type T
FAdd(T, x, y) ==
    IF x.k = "nan" \/ y.k = "nan" THEN PropNaN(x, y)
    ELSE IF x.k = "inf" THEN (IF y.k = "inf" /\ y.s # x.s THEN QNaN ELSE x)
    ELSE IF y.k = "inf" THEN y
    ELSE IF x.m = << >> /\ y.m = << >> THEN Zero(IF x.s = y.s THEN x.s ELSE 0)
    ELSE IF x.m = << >> THEN y
    ELSE IF y.m = << >> THEN x
    ELSE LET \* an operand below a quarter of the other's last place only
             \* makes the sum inexact: any such value rounds the same
             tiny(a, b) == Top(b) <= Top(a) - Digits(T) - 2
             x1 == IF tiny(y, x)
                   THEN [x EXCEPT !.m = << 1 >>, !.e = Top(y) - Digits(T) - 3]
                   ELSE x
             y1 == IF tiny(x, y)
                   THEN [y EXCEPT !.m = << 1 >>, !.e = Top(x) - Digits(T) - 3]
                   ELSE y
             e  == Min(x1.e, y1.e)
             X  == BShl(x1.m, x1.e - e)
             Y  == BShl(y1.m, y1.e - e)
             c  == BCmp(X, Y)
         IN  IF x.s = y.s THEN Round(T, x.s, BAdd(X, Y), e)
             ELSE IF c = 0 THEN Zero(0)
             ELSE IF c > 0 THEN Round(T, x.s, BSub(X, Y), e)
             ELSE Round(T, y.s, BSub(Y, X), e)

\* x - y in type T
FSub(T, x, y) ==
    IF x.k = "nan" \/ y.k = "nan" THEN PropNaN(x, y) ELSE FAdd(T, x, FNeg(y))

\* x * y in type T
FMul(T, x, y) ==
    LET s == (x.s + y.s) % 2
    IN  IF x.k = "nan" \/ y.k = "nan" THEN PropNaN(x, y)
        ELSE IF x.k = "inf" \/ y.k = "inf"
        THEN (IF IsZero(x) \/ IsZero(y) THEN QNaN ELSE Inf(s))
        ELSE IF x.m = << >> \/ y.m = << >> THEN Zero(s)
        ELSE Round(T, s, BMul(x.m, y.m), x.e + y.e)

\* x / y in type T
FDiv(T, x, y) ==
    LET s == (x.s + y.s) % 2
    IN  IF x.k = "nan" \/ y.k = "nan" THEN PropNaN(x, y)
        ELSE IF x.k = "inf" THEN (IF y.k = "inf" THEN QNaN ELSE Inf(s))
        ELSE IF y.k = "inf" THEN Zero(s)
        ELSE IF y.m = << >> THEN (IF x.m = << >> THEN QNaN ELSE Inf(s))
        ELSE IF x.m = << >> THEN Zero(s)
        ELSE LET k  == Max(0, Digits(T) + 2 + BBitLen(y.m) - BBitLen(x.m))
                 qr == BDivMod(BShl(x.m, k), y.m)
                 \* a last bit that records a non-zero remainder
                 M  == BAdd(BMulSmall(qr[1], 2),
                            IF qr[2] = << >> THEN << >> ELSE << 1 >>)
             IN  Round(T, s, M, x.e - y.e - k - 1)

\* |x| against |y| for finite non-zero x, y: -1, 0 or 1
MagCmp(x, y) ==
    IF Top(x) < Top(y) THEN -1
    ELSE IF Top(x) > Top(y) THEN 1
    ELSE LET e == Min(x.e, y.e)
         IN  BCmp(BShl(x.m, x.e - e), BShl(y.m, y.e - e))

\* x <=> y on floating-point operands: a std::partial_ordering
FCmp(x, y) ==
    LET sgn(v) == IF IsZero(v) THEN 0 ELSE IF v.s = 1 THEN -1 ELSE 1
        mag    == IF x.k = "inf" THEN (IF y.k = "inf" THEN 0 ELSE 1)
                  ELSE IF y.k = "inf" THEN -1
                  ELSE MagCmp(x, y)
        c      == IF sgn(x) # sgn(y) THEN (IF sgn(x) < sgn(y) THEN -1 ELSE 1)
                  ELSE IF sgn(x) = 0 THEN 0
                  ELSE sgn(x) * mag
    IN  IF x.k = "nan" \/ y.k = "nan" THEN "unordered"
        ELSE IF c < 0 THEN "less"
        ELSE IF c > 0 THEN "greater"
        ELSE "equivalent"

(***************************************************************************)
(* Lines 8-16: the conversion factors, computed in the precision T.        *)
(***************************************************************************)

\* std::numbers::pi_v<T>: pi, rounded to T (here from its first 90 bits and
\* a last bit recording that more follow)
PiV(T) ==
    Round(T, 0,
          BAdd(BMulSmall(<< 6538, 9766, 3107, 17453, 30376, 25735 >>, 2), << 1 >>),
          -89)

\* T(180)
T180 == FromInt(180)

degrees_to_radians_factor(T) == FDiv(T, PiV(T), T180)

radians_to_degrees_factor(T) == FDiv(T, T180, PiV(T))

(***************************************************************************)
(* std::format's "{}" for a floating-point value (lines 191, 201, 212): the *)
(* text std::to_chars(first, last, value) writes, i.e. the fewest decimal  *)
(* digits that read back as the same value, in fixed or in scientific      *)
(* notation, whichever is shorter (fixed on a tie).  Text is a sequence of *)
(* bytes.                                                                  *)
(***************************************************************************)
DigitChar(d) == 48 + d

MinusSign == << 45 >>

\* << quotient, remainder >> of a by a small k, from limb i downwards
RECURSIVE BDivSmallFrom(_, _, _, _)
BDivSmallFrom(a, k, i, r) ==
    IF i = 0 THEN << << >>, r >>
    ELSE LET x  == r * Base + a[i]
             lo == BDivSmallFrom(a, k, i - 1, x % k)
         IN  << lo[1] \o << x \div k >>, lo[2] >>

BDivModSmall(a, k) ==
    LET qr == BDivSmallFrom(a, k, Len(a), 0)
    IN  << BNorm(qr[1]), qr[2] >>

\* the decimal digits of a natural number, most significant first
RECURSIVE BDecimal(_)
BDecimal(a) ==
    IF a = << >> THEN << >>
    ELSE LET qr == BDivModSmall(a, 10)
         IN  BDecimal(qr[1]) \o << qr[2] >>

\* Scale R / S (the value) and its half-gaps Mp / S (to the next value up)
\* and Mm / S (down) by powers of ten until the upper end of the rounding
\* interval lies in [1/10, 1): << R, S, Mp, Mm, k >>, the value being
\* (R / S) * 10^k.  incl: the interval contains its ends (an even mantissa).
RECURSIVE Scale10(_, _, _, _, _, _)
Scale10(R, S, Mp, Mm, k, incl) ==
    LET hi  == BAdd(R, Mp)
        c   == BCmp(hi, S)
        c10 == BCmp(BMulSmall(hi, 10), S)
    IN  IF c > 0 \/ (c = 0 /\ incl)
        THEN Scale10(R, BMulSmall(S, 10), Mp, Mm, k + 1, incl)
        ELSE IF c10 < 0 \/ (c10 = 0 /\ ~incl)
        THEN Scale10(BMulSmall(R, 10), S, BMulSmall(Mp, 10), BMulSmall(Mm, 10),
                     k - 1, incl)
        ELSE << R, S, Mp, Mm, k >>

\* the digits after scaling, stopping at the first that identifies the value
RECURSIVE GenDigits(_, _, _, _, _)
GenDigits(R, S, Mp, Mm, incl) ==
    LET qr  == BDivMod(BMulSmall(R, 10), S)
        d   == IF qr[1] = << >> THEN 0 ELSE qr[1][1]
        r   == qr[2]
        mp  == BMulSmall(Mp, 10)
        mm  == BMulSmall(Mm, 10)
        cl  == BCmp(r, mm)
        ch  == BCmp(BAdd(r, mp), S)
        tc1 == cl < 0 \/ (cl = 0 /\ incl)
        tc2 == ch > 0 \/ (ch = 0 /\ incl)
        half == BCmp(BMulSmall(r, 2), S)
    IN  IF ~tc1 /\ ~tc2 THEN << d >> \o GenDigits(r, S, mp, mm, incl)
        ELSE IF tc1 /\ ~tc2 THEN << d >>
        ELSE IF tc2 /\ ~tc1 THEN << d + 1 >>
        \* both neighbours identify the value: the nearer, the even one on a tie
        ELSE IF half < 0 \/ (half = 0 /\ d % 2 = 0) THEN << d >>
        ELSE << d + 1 >>

\* << digits, X >>: the shortest digits d1 d2 ... dn of a finite non-zero x of
\* type T and its decimal exponent X, |x| being d1.d2...dn * 10^X
ShortestDigits(T, x) ==
    LET u    == Max(Top(x) - Digits(T), QMin(T))   \* the last place of x
        \* the gap below a power of two is half the gap above it
        Mm   == IF x.m = << 1 >> /\ u > QMin(T) THEN << 1 >> ELSE << 2 >>
        c    == u - 2
        r    == BShl(x.m, x.e - c)
        up   == IF c >= 0 THEN c ELSE 0
        dn   == IF c >= 0 THEN 0 ELSE -c
        incl == x.e > u
        sc   == Scale10(BShl(r, up), BShl(<< 1 >>, dn), BShl(<< 2 >>, up),
                        BShl(Mm, up), 0, incl)
    IN  << GenDigits(sc[1], sc[2], sc[3], sc[4], incl), sc[5] - 1 >>

RECURSIVE Repeat(_, _)
Repeat(b, n) == IF n <= 0 THEN << >> ELSE << b >> \o Repeat(b, n - 1)

RECURSIVE MapDigits(_)
MapDigits(ds) ==
    IF ds = << >> THEN << >> ELSE << DigitChar(Head(ds)) >> \o MapDigits(Tail(ds))

\* d1.d2...dne+XX, the exponent with at least two digits
Scientific(ds, X) ==
    LET ex == BDecimal(BFromInt(IF X < 0 THEN -X ELSE X))
    IN  << DigitChar(ds[1]) >>
        \o (IF Len(ds) > 1 THEN << 46 >> \o MapDigits(Tail(ds)) ELSE << >>)
        \o << 101, IF X < 0 THEN 45 ELSE 43 >>
        \o Repeat(DigitChar(0), 2 - Len(ex))
        \o MapDigits(ex)

\* Fixed notation; a whole number is written out exactly.
Fixed(x, ds, X) ==
    IF X >= Len(ds) - 1 THEN MapDigits(BDecimal(BShl(x.m, x.e)))
    ELSE IF X >= 0
    THEN MapDigits(SubSeq(ds, 1, X + 1)) \o << 46 >>
         \o MapDigits(SubSeq(ds, X + 2, Len(ds)))
    ELSE << DigitChar(0), 46 >> \o Repeat(DigitChar(0), -X - 1) \o MapDigits(ds)

FixedLen(ds, X) ==
    IF X >= Len(ds) - 1 THEN X + 1
    ELSE IF X >= 0 THEN Len(ds) + 1
    ELSE Len(ds) + 1 - X

NumberText(T, x) ==
    (IF x.s = 1 THEN MinusSign ELSE << >>) \o
    (IF x.k = "nan" THEN << 110, 97, 110 >>
     ELSE IF x.k = "inf" THEN << 105, 110, 102 >>
     ELSE IF x.m = << >> THEN << DigitChar(0) >>
     ELSE LET dx  == ShortestDigits(T, x)
              sci == Scientific(dx[1], dx[2])
          IN  IF FixedLen(dx[1], dx[2]) <= Len(sci)
              THEN Fixed(x, dx[1], dx[2])
              ELSE sci)

(***************************************************************************)
(* Types.  A type is one of the scalar types, or angle_unit<T, Tag> for a  *)
(* floating-point T (the class is constrained by std::floating_point<T>,   *)
(* lines 18-20, so no other angle_unit type can be named).                 *)
(***************************************************************************)
ScalarNames == {"float", "double", "int"}

Tags == {"degrees_tag", "radians_tag"}

Scalar(T) == [cls |-> "scalar", T |-> T, Tag |-> "none"]

angle_unit(T, Tag) == [cls |-> "angle_unit", T |-> T, Tag |-> Tag]

NoType == [cls |-> "none", T |-> "none", Tag |-> "none"]

degrees(T) == angle_unit(T, "degrees_tag")

radians(T) == angle_unit(T, "radians_tag")

ScalarTypes == { Scalar(T) : T \in ScalarNames }

AngleTypes == { angle_unit(T, Tag) : T \in FloatTypes, Tag \in Tags }

\* std::floating_point<X> for a type X
floating_point(X) == X.cls = "scalar" /\ X.T \in FloatTypes

is_angle_unit_v(X) == X.cls = "angle_unit"

AngleUnit(X) == is_angle_unit_v(X)

\* T::underlying_type, for an AngleUnit T
angle_underlying_t(X) == Scalar(X.T)

\* ImplicitlyConvertible, were the constructor from a scalar (line 26) not
\* explicit: a scalar would then convert to any angle type
ConvertibleThroughConstructor(From, To) ==
    \/ From = To
    \/ From.cls = "scalar" /\ To.cls \in {"scalar", "angle_unit"}

\* Whether an argument of type From initialises a by-value parameter of
\* type To.  The only constructor from a scalar is explicit, and the class
\* has no conversion function: an angle type converts to and from nothing
\* but itself.  Arithmetic types convert to one another.
ImplicitlyConvertible(From, To) ==
    \/ From = To
    \/ From.cls = "scalar" /\ To.cls = "scalar"

(***************************************************************************)
(* Overload resolution of a call angle_cast<targs...>(arg), lines 116-141. *)
(* targs are the explicit template arguments (types), Arg the type of the  *)
(* argument.  Deduce* is template argument deduction and the check of the  *)
(* constraints: the function's return type, or NoType if the overload is   *)
(* not viable.                                                             *)
(***************************************************************************)
CastOverloads == {"generic", "identity", "degrees_to_radians", "radians_to_degrees"}

\* DeduceGeneric without the !std::is_same_v<T, U> of the requires-clause
DeduceGenericAnyPair(targs, Arg) ==
    IF Len(targs) = 0 \/ Len(targs) > 2 THEN NoType
    ELSE LET T == targs[1]
             U == IF Len(targs) = 2 THEN targs[2] ELSE Arg
         IN  IF /\ AngleUnit(T)
                /\ AngleUnit(U)
                /\ angle_underlying_t(T) = angle_underlying_t(U)
                /\ ImplicitlyConvertible(Arg, U)
             THEN T
             ELSE NoType

\* DeduceGeneric without the test of the underlying types of the
\* requires-clause
DeduceGenericAnyPrecision(targs, Arg) ==
    IF Len(targs) = 0 \/ Len(targs) > 2 THEN NoType
    ELSE LET T == targs[1]
             U == IF Len(targs) = 2 THEN targs[2] ELSE Arg
         IN  IF /\ AngleUnit(T)
                /\ AngleUnit(U)
                /\ T # U
                /\ ImplicitlyConvertible(Arg, U)
             THEN T
             ELSE NoType

\* template<AngleUnit T, AngleUnit U> requires(...) T angle_cast(U u)
DeduceGeneric(targs, Arg) ==
    IF Len(targs) = 0 \/ Len(targs) > 2 THEN NoType     \* T cannot be deduced
    ELSE LET T == targs[1]
             U == IF Len(targs) = 2 THEN targs[2] ELSE Arg
         IN  IF /\ AngleUnit(T)
                /\ AngleUnit(U)
                /\ T # U
                /\ angle_underlying_t(T) = angle_underlying_t(U)
                /\ ImplicitlyConvertible(Arg, U)
             THEN T
             ELSE NoType

\* template<AngleUnit T> T angle_cast(T t)
DeduceIdentity(targs, Arg) ==
    IF Len(targs) > 1 THEN NoType
    ELSE LET T == IF Len(targs) = 1 THEN targs[1] ELSE Arg
         IN  IF AngleUnit(T) /\ ImplicitlyConvertible(Arg, T) THEN T ELSE NoType

\* template<typename T> Ret<T> angle_cast(Param<T> t), with Param<T> and
\* Ret<T> the angle_unit<T, ParamTag> and angle_unit<T, RetTag>
DeduceFormula(targs, Arg, ParamTag, RetTag) ==
    IF Len(targs) > 1 THEN NoType
    ELSE IF Len(targs) = 1
    THEN \* Param<T> must be a type: T a floating-point type
         IF /\ floating_point(targs[1])
            /\ ImplicitlyConvertible(Arg, angle_unit(targs[1].T, ParamTag))
         THEN angle_unit(targs[1].T, RetTag)
         ELSE NoType
    ELSE \* T is deduced from an argument of type angle_unit<T, ParamTag>
         IF is_angle_unit_v(Arg) /\ Arg.Tag = ParamTag
         THEN angle_unit(Arg.T, RetTag)
         ELSE NoType

Deduce(o, targs, Arg) ==
    CASE o = "generic"            -> DeduceGeneric(targs, Arg)
      [] o = "identity"           -> DeduceIdentity(targs, Arg)
      [] o = "degrees_to_radians" ->
            DeduceFormula(targs, Arg, "degrees_tag", "radians_tag")
      [] o = "radians_to_degrees" ->
            DeduceFormula(targs, Arg, "radians_tag", "degrees_tag")

\* ParamForm, were the formula overloads declared with a bare template
\* parameter like the other two
ParamFormUnconstrained(o) == "any"

\* The function parameter of each template, for partial ordering: a bare
\* template parameter (tag "any") or angle_unit<T, tag>.
ParamForm(o) ==
    CASE o = "generic"            -> "any"
      [] o = "identity"           -> "any"
      [] o = "degrees_to_radians" -> "degrees_tag"
      [] o = "radians_to_degrees" -> "radians_tag"

\* a's parameter can be deduced from every argument b's parameter accepts
AtLeastAsSpecialized(b, a) == ParamForm(a) = "any" \/ ParamForm(a) = ParamForm(b)

MoreSpecialized(b, a) == AtLeastAsSpecialized(b, a) /\ ~AtLeastAsSpecialized(a, b)

Viable(targs, Arg) == { o \in CastOverloads : Deduce(o, targs, Arg) # NoType }

\* Every viable overload takes the argument without a conversion, so the
\* best one is the template more specialized than every other.
Best(targs, Arg) ==
    { o \in Viable(targs, Arg) :
        \A o2 \in Viable(targs, Arg) \ {o} : MoreSpecialized(o, o2) }

\* The outcome of the call: the overload selected and the type returned, or
\* why the call is ill-formed.  Instantiating the generic overload fails
\* its static_assert (line 121).
ResolveCast(targs, Arg) ==
    LET best == Best(targs, Arg)
        o    == CHOOSE x \in best : TRUE
    IN  IF Viable(targs, Arg) = {}
        THEN [status |-> "no_match", fn |-> "none", type |-> NoType]
        ELSE IF Cardinality(best) # 1
        THEN [status |-> "ambiguous", fn |-> "none", type |-> NoType]
        ELSE IF o = "generic"
        THEN [status |-> "static_assert", fn |-> o, type |-> NoType]
        ELSE [status |-> "ok", fn |-> o, type |-> Deduce(o, targs, Arg)]

\* the body of the overload fn applied to the payload x of an angle_unit<T, .>
CastValue(fn, T, x) ==
    CASE fn = "identity"           -> x
      [] fn = "degrees_to_radians" -> FMul(T, x, degrees_to_radians_factor(T))
      [] fn = "radians_to_degrees" -> FMul(T, x, radians_to_degrees_factor(T))

(***************************************************************************)
(* The operators of class angle_unit<T, Tag> (V below), lines 28-80.  The  *)
(* binary ones are friends defined in the class: name lookup finds them    *)
(* only through an operand of type V.  Each takes its operands by value.   *)
(***************************************************************************)
Friends(V) ==
    { [name |-> "<=>", params |-> << V, V >>],                  \* line 30
      [name |-> "+",   params |-> << V, V >>],                  \* line 62
      [name |-> "-",   params |-> << V, V >>],                  \* line 66
      [name |-> "*",   params |-> << V, Scalar(V.T) >>],        \* line 70
      [name |-> "*",   params |-> << Scalar(V.T), V >>],        \* line 74
      [name |-> "/",   params |-> << V, Scalar(V.T) >> ] }      \* line 78

\* the member operators taking one argument, by the type of their parameter
Members(V) ==
    { [name |-> "+=", param |-> V],                             \* line 42
      [name |-> "-=", param |-> V],                             \* line 47
      [name |-> "*=", param |-> Scalar(V.T)],                   \* line 52
      [name |-> "/=", param |-> Scalar(V.T)] }                  \* line 57

ArithmeticOps == {"+", "-", "*", "/"}

RelationalOps == {"<", "<=", ">", ">="}

EqualityOps == {"==", "!="}

BinaryOps == ArithmeticOps \cup RelationalOps \cup EqualityOps \cup {"<=>"}

CompoundOps == {"+=", "-=", "*=", "/="}

\* The operator function an expression x @ y looks up: a relational
\* expression is rewritten in terms of operator<=>, an equality expression
\* in terms of operator==, which a user-provided operator<=> does not
\* declare.
LookupName(op) ==
    IF op \in RelationalOps THEN "<=>"
    ELSE IF op \in EqualityOps THEN "=="
    ELSE op

\* The candidates of x @ y for operands of types L and R: the friends of the
\* operands' classes, and for a comparison also each of them with its
\* parameters in reverse order.
Candidates(op, L, R) ==
    LET found == UNION { { f \in Friends(V) : f.name = LookupName(op) } :
                         V \in { X \in {L, R} : is_angle_unit_v(X) } }
    IN  { [name |-> f.name, params |-> f.params, reversed |-> FALSE] :
            f \in found }
        \cup
        (IF op \in RelationalOps \cup EqualityOps \cup {"<=>"}
         THEN { [name |-> f.name, params |-> << f.params[2], f.params[1] >>,
                 reversed |-> TRUE] : f \in found }
         ELSE {})

ViableOps(op, L, R) ==
    { c \in Candidates(op, L, R) :
        \/ ~c.reversed /\ ImplicitlyConvertible(L, c.params[1])
                       /\ ImplicitlyConvertible(R, c.params[2])
        \/ c.reversed  /\ ImplicitlyConvertible(R, c.params[1])
                       /\ ImplicitlyConvertible(L, c.params[2]) }

\* A candidate that is not rewritten is better than a rewritten one.
BestOps(op, L, R) ==
    LET v == ViableOps(op, L, R)
    IN  IF \E c \in v : ~c.reversed THEN { c \in v : ~c.reversed } ELSE v

NoFn == [name |-> "none", params |-> << NoType, NoType >>, reversed |-> FALSE]

ResolveBinary(op, L, R) ==
    LET best == BestOps(op, L, R)
    IN  IF best = {} THEN [status |-> "no_match", fn |-> NoFn]
        ELSE IF Cardinality(best) # 1 THEN [status |-> "ambiguous", fn |-> NoFn]
        ELSE [status |-> "ok", fn |-> CHOOSE c \in best : TRUE]

\* x.operator@=(y) for a receiver of type V and an argument of type R
ResolveCompound(op, V, R) ==
    LET v == { f \in Members(V) : f.name = op /\ ImplicitlyConvertible(R, f.param) }
    IN  IF is_angle_unit_v(V) /\ v # {} THEN "ok" ELSE "no_match"

\* the value type of the class a friend belongs to
ClassOf(fn) == IF is_angle_unit_v(fn.params[1]) THEN fn.params[1] ELSE fn.params[2]

\* FriendValue with operator- adding its operands
FriendValueMinusAdds(fn, x, y) ==
    LET T == ClassOf(fn).T
    IN  CASE fn.name = "+" -> FAdd(T, x, y)
          [] fn.name = "-" -> FAdd(T, x, y)
          [] fn.name = "*" /\ fn.params[2].cls = "scalar" -> FMul(T, x, Convert(T, y))
          [] fn.name = "*" /\ fn.params[1].cls = "scalar" -> FMul(T, Convert(T, x), y)
          [] fn.name = "/" -> FDiv(T, x, Convert(T, y))

\* The payload of the value a friend arithmetic operator returns, from the
\* payloads x, y of its arguments; a scalar argument is first converted to
\* the parameter type T.
FriendValue(fn, x, y) ==
    LET T == ClassOf(fn).T
    IN  CASE fn.name = "+" -> FAdd(T, x, y)                       \* line 63
          [] fn.name = "-" -> FSub(T, x, y)                       \* line 67
          [] fn.name = "*" /\ fn.params[2].cls = "scalar" ->
                FMul(T, x, Convert(T, y))                         \* line 71
          [] fn.name = "*" /\ fn.params[1].cls = "scalar" ->
                FMul(T, Convert(T, x), y)                         \* line 75
          [] fn.name = "/" -> FDiv(T, x, Convert(T, y))           \* line 79

\* SpaceshipValue with operator<=> comparing b.val_ to a.val_
SpaceshipValueSwapped(fn, x, y) == IF fn.reversed THEN FCmp(x, y) ELSE FCmp(y, x)

\* operator<=> (line 31) on the payloads, as the selected candidate calls it
SpaceshipValue(fn, x, y) == IF fn.reversed THEN FCmp(y, x) ELSE FCmp(x, y)

\* x @ y rewritten as (x <=> y) @ 0, or as 0 @ (y <=> x) for a reversed
\* candidate, given the std::partial_ordering ord the call returned
Rewritten(op, fn, ord) ==
    LET o == IF ~fn.reversed \/ ord \in {"equivalent", "unordered"} THEN ord
             ELSE IF ord = "less" THEN "greater" ELSE "less"
    IN  CASE op = "<"  -> o = "less"
          [] op = "<=" -> o \in {"less", "equivalent"}
          [] op = ">"  -> o = "greater"
          [] op = ">=" -> o \in {"greater", "equivalent"}

\* CompoundValue with operator+= assigning its argument to val_
CompoundValueAssigns(op, T, x, y) ==
    CASE op = "+=" -> y
      [] op = "-=" -> FSub(T, x, y)
      [] op = "*=" -> FMul(T, x, Convert(T, y))
      [] op = "/=" -> FDiv(T, x, Convert(T, y))

\* the payload the receiver holds after x @= y (lines 43, 48, 53, 58)
CompoundValue(op, T, x, y) ==
    CASE op = "+=" -> FAdd(T, x, y)
      [] op = "-=" -> FSub(T, x, y)
      [] op = "*=" -> FMul(T, x, Convert(T, y))
      [] op = "/=" -> FDiv(T, x, Convert(T, y))

(***************************************************************************)
(* Text: std::formatter<radians<T>> and std::formatter<degrees<T>>, lines  *)
(* 185-203.  The suffixes are the bytes of the format strings as they      *)
(* stand in the source file.                                               *)
(***************************************************************************)
RadiansSuffix == << 114, 100 >>                                 \* "rd"

DegreesSuffix == << 195, 130, 194, 176 >>          \* bytes C3 82 C2 B0

FormatAngle(V, x) ==
    NumberText(V.T, x)
    \o (IF V.Tag = "radians_tag" THEN RadiansSuffix ELSE DegreesSuffix)

(***************************************************************************)
(* The state machine.  A program declares angle variables and evaluates    *)
(* one full expression after another.  vars holds the variables (type and  *)
(* payload val_), os the output streams (the bytes written, the field      *)
(* width and whether the stream is good()), res what the                   *)
(* expression of the current statement came to: the function selected and  *)
(* the value returned, or the reason the expression is ill-formed (such an *)
(* expression is rejected by the compiler and has no effect).  steps       *)
(* counts the statements that changed a variable or the stream.            *)
(***************************************************************************)
VARIABLES vars, res, os, steps

allvars == << vars, res, os, steps >>

MaxSteps == 1

VarIds == {1, 2}

\* the payloads the two variables are constructed with (line 26): 1.5 and
\* 90, 180 and a NaN, 0 (the default argument T val = {}) and -0.75, and
\* two NaNs, the first with its sign bit set
InitPayloads ==
    { << Fin(0, << 3 >>, -1), FromInt(90) >>,
      << FromInt(180), NaN(0) >>,
      << Zero(0), Fin(1, << 3 >>, -2) >>,
      << NaN(1), NaN(0) >> }

StreamIds == {1, 2, 3}

\* The streams the program writes to, as their owner set them up: a new
\* stream, one after os.width(10), one after os.setstate(failbit).  The
\* fill character is the space, the adjustment right (the defaults).
InitStreams ==
    << [bytes |-> << >>, width |-> 0, good |-> TRUE],
       [bytes |-> << >>, width |-> 10, good |-> TRUE],
       [bytes |-> << >>, width |-> 0, good |-> FALSE] >>

\* an operand: variable ref (0 for a scalar), its type and its payload
Operand(i) == [ref |-> i, type |-> vars[i].type, val |-> vars[i].val]

\* the scalar operands of the expressions: 3.0f, and 0.1 (a double)
ScalarOperands ==
    { [ref |-> 0, type |-> Scalar("float"), val |-> FromInt(3)],
      [ref |-> 0, type |-> Scalar("double"),
       val |-> FDiv("double", FromInt(1), FromInt(10))] }

VarOperands == { Operand(i) : i \in VarIds }

\* the explicit template argument lists of the angle_cast calls
TemplateArgs ==
    { << >> } \cup { << X >> : X \in AngleTypes \cup ScalarTypes }
    \cup { << X, Y >> : X \in {radians("float")}, Y \in {degrees("float")} }

OtherType(n) == [cls |-> n, T |-> "none", Tag |-> "none"]

NoRes ==
    [kind |-> "none", op |-> "none", targs |-> << >>, args |-> << >>,
     status |-> "none", fn |-> "none", type |-> NoType, val |-> Zero(0),
     call |-> "none", ord |-> "none", bool |-> "none", text |-> << >>,
     stream |-> 0]

Expr(kind, op, args) == [NoRes EXCEPT !.kind = kind, !.op = op, !.args = args]

Idle == res.kind = "none"

Init ==
    /\ \E t \in [VarIds -> AngleTypes], p \in InitPayloads :
          vars = [i \in VarIds |-> [type |-> t[i], val |-> p[i]]]
    /\ res = NoRes
    /\ os = InitStreams
    /\ steps = 0

\* a.value(), line 28
Value(i) ==
    /\ Idle
    /\ res' = [Expr("value", "value", << Operand(i) >>) EXCEPT
                 !.status = "ok", !.fn = "value",
                 !.type = Scalar(vars[i].type.T), !.val = vars[i].val]
    /\ UNCHANGED << vars, os, steps >>

\* -a and +a, lines 34-40
Unary(op, i) ==
    /\ Idle
    /\ res' = [Expr("unary", op, << Operand(i) >>) EXCEPT
                 !.status = "ok", !.fn = op, !.type = vars[i].type,
                 !.val = IF op = "-" THEN FNeg(vars[i].val) ELSE vars[i].val]
    /\ UNCHANGED << vars, os, steps >>

\* a @ b for a binary operator @, lines 30-32 and 62-80
Binary(op, a, b) ==
    LET r   == ResolveBinary(op, a.type, b.type)
        e   == [Expr("binary", op, << a, b >>) EXCEPT !.status = r.status,
                                                      !.fn = r.fn.name]
        ord == SpaceshipValue(r.fn, a.val, b.val)
    IN  /\ Idle
        /\ IF r.status # "ok" THEN res' = e
           ELSE IF op \in ArithmeticOps
           THEN \E v \in Outcomes(FriendValue(r.fn, a.val, b.val)) :
                   res' = [e EXCEPT !.type = ClassOf(r.fn), !.val = v]
           ELSE IF op = "<=>"
           THEN res' = [e EXCEPT !.type = OtherType("partial_ordering"),
                                 !.ord = ord]
           ELSE res' = [e EXCEPT !.type = OtherType("bool"), !.ord = ord,
                                 !.bool = IF Rewritten(op, r.fn, ord)
                                          THEN "true" ELSE "false"]
        /\ UNCHANGED << vars, os, steps >>

\* a @= b for a variable a, lines 42-60; the result is a reference to a
Compound(op, i, b) ==
    LET st == ResolveCompound(op, vars[i].type, b.type)
        e  == [Expr("compound", op, << Operand(i), b >>) EXCEPT
                 !.status = st, !.fn = IF st = "ok" THEN op ELSE "none"]
    IN  /\ Idle
        /\ steps < MaxSteps
        /\ IF st = "ok"
           THEN \E v \in Outcomes(CompoundValue(op, vars[i].type.T,
                                                vars[i].val, b.val)) :
                   /\ vars' = [vars EXCEPT ![i].val = v]
                   /\ res' = [e EXCEPT !.type = vars[i].type, !.val = v]
                   /\ steps' = steps + 1
           ELSE /\ res' = e
                /\ UNCHANGED << vars, steps >>
        /\ os' = os

\* angle_cast<targs...>(a), lines 116-141
Cast(targs, i) ==
    LET r == ResolveCast(targs, vars[i].type)
        e == [Expr("cast", "angle_cast", << Operand(i) >>) EXCEPT
                !.targs = targs, !.status = r.status, !.fn = r.fn]
    IN  /\ Idle
        /\ IF r.status = "ok"
           THEN \E v \in Outcomes(CastValue(r.fn, vars[i].type.T, vars[i].val)) :
                   res' = [e EXCEPT !.type = r.type, !.val = v]
           ELSE res' = e
        /\ UNCHANGED << vars, os, steps >>

TrigFunctions == {"sin", "cos", "tan"}

\* the std function each of sin, cos and tan delegates to
StdFunction(f) ==
    CASE f = "sin" -> "std::sin" [] f = "cos" -> "std::cos" [] f = "tan" -> "std::tan"

\* sin(a), cos(a), tan(a), lines 145-158: the value returned is the std
\* function `call` applied to the payload `val` of
\* angle_cast<radians<T>>(a); the call is ill-formed if the cast is.
Trig(f, i) ==
    LET T == vars[i].type.T
        r == ResolveCast(<< radians(T) >>, vars[i].type)
        e == [Expr("trig", f, << Operand(i) >>) EXCEPT
                !.targs = << radians(T) >>, !.status = r.status, !.fn = r.fn]
    IN  /\ Idle
        /\ IF r.status = "ok"
           THEN \E v \in Outcomes(CastValue(r.fn, T, vars[i].val)) :
                   res' = [e EXCEPT !.type = Scalar(T), !.call = StdFunction(f),
                                    !.val = v]
           ELSE res' = e
        /\ UNCHANGED << vars, os, steps >>

\* std::format("{}", a), lines 185-203
Format(i) ==
    /\ Idle
    /\ res' = [Expr("format", "format", << Operand(i) >>) EXCEPT
                 !.status = "ok", !.fn = "format", !.type = OtherType("string"),
                 !.text = FormatAngle(vars[i].type, vars[i].val)]
    /\ UNCHANGED << vars, os, steps >>

\* The insertion of the string t into a stream o (line 212): nothing if o
\* is not good(); else t after the fill characters that bring it to the
\* field width, and the width is reset.
Insert(o, t) ==
    IF ~o.good THEN o
    ELSE [o EXCEPT !.bytes = @ \o Repeat(32, o.width - Len(t)) \o t,
                   !.width = 0]

\* os << a for the stream s, lines 209-215; the result is a reference to os
Stream(s, i) ==
    /\ Idle
    /\ steps < MaxSteps
    /\ os' = [os EXCEPT ![s] = Insert(@, FormatAngle(vars[i].type, vars[i].val))]
    /\ res' = [Expr("stream", "<<", << Operand(i) >>) EXCEPT
                 !.status = "ok", !.fn = "<<", !.type = OtherType("ostream"),
                 !.stream = s]
    /\ steps' = IF os[s].good THEN steps + 1 ELSE steps
    /\ vars' = vars

\* the end of the statement: the value of the expression is discarded
EndStatement ==
    /\ ~Idle
    /\ res' = NoRes
    /\ UNCHANGED << vars, os, steps >>

Next ==
    \/ \E i \in VarIds : Value(i)
    \/ \E op \in {"+", "-"}, i \in VarIds : Unary(op, i)
    \/ \E op \in BinaryOps, a \in VarOperands, b \in VarOperands \cup ScalarOperands :
          Binary(op, a, b)
    \/ \E op \in BinaryOps, a \in ScalarOperands, b \in VarOperands :
          Binary(op, a, b)
    \/ \E op \in CompoundOps, i \in VarIds, b \in VarOperands \cup ScalarOperands :
          Compound(op, i, b)
    \/ \E targs \in TemplateArgs, i \in VarIds : Cast(targs, i)
    \/ \E f \in TrigFunctions, i \in VarIds : Trig(f, i)
    \/ \E i \in VarIds : Format(i)
    \/ \E s \in StreamIds, i \in VarIds : Stream(s, i)
    \/ EndStatement

Spec == Init /\ [][Next]_allvars

(***************************************************************************)
(* Properties.  res.args holds the operands of the current expression as   *)
(* they were when it was evaluated (each is taken by value), so a state    *)
(* after an operation shows both its inputs and its outcome.               *)
(***************************************************************************)

\* the expression was rejected by the compiler and has no value
Rejected == res.status \in {"no_match", "ambiguous", "static_assert"} /\ res.type = NoType

\* x < y on floating-point payloads, by the sign of y - x (a difference of
\* two distinct finite values is never rounded to zero)
FLt(x, y) ==
    LET d == FSub("double", y, x)
    IN  d.k # "nan" /\ d.s = 0 /\ ~IsZero(d)

\* pi_v<T> / T(180) and T(180) / pi_v<T>, written out
PiOver180(T) == FDiv(T, PiV(T), FromInt(180))

OneEightyOverPi(T) == FDiv(T, FromInt(180), PiV(T))

\* the operators claim C1 is about
SameTagOps == {"+", "-", "+=", "-=", "<=>"} \cup RelationalOps

\* C1: for +, -, +=, -=, <=> and the relational operators, operands whose
\* types differ (two different tagged types, or a tagged value and a bare
\* scalar) are rejected at compile time: no overload is viable, no value is
\* produced and a rejected compound assignment leaves its receiver as it
\* was.  Operands of one tagged type are accepted, and + and - return that
\* same type.
C1_MixedOperandsRejected ==
    (res.kind \in {"binary", "compound"} /\ res.op \in SameTagOps) =>
        LET a == res.args[1]
            b == res.args[2]
        IN  /\ a.type # b.type =>
                  /\ res.status = "no_match"
                  /\ Rejected
                  /\ a.ref # 0 => vars[a.ref].val = a.val
            /\ a.type = b.type =>
                  /\ res.status = "ok"
                  /\ res.op \in {"+", "-", "+=", "-="} => res.type = a.type

\* C1 witness: a degrees<double> + radians<double> expression was compiled
C1_Witness ==
    /\ res.kind = "binary"
    /\ res.op = "+"
    /\ res.args[1].type = degrees("double")
    /\ res.args[2].type = radians("double")

\* C2: sin, cos and tan accept a tagged value of either unit and of either
\* precision T: the call is well-formed, returns the scalar type T, and its
\* value is the std function applied to the radians equivalent of the
\* argument (the payload itself for radians, payload * pi/180 for degrees).
C2_TrigAcceptsAnyUnit ==
    res.kind = "trig" =>
        LET a == res.args[1]
            T == a.type.T
        IN  /\ res.status = "ok"
            /\ res.type = Scalar(T)
            /\ res.call = StdFunction(res.op)
            /\ res.val \in Outcomes(IF a.type.Tag = "radians_tag" THEN a.val
                                      ELSE FMul(T, a.val, PiOver180(T)))

\* C3: a conversion that names its target, between the two tagged types of
\* one precision T, resolves to the formula overload and yields the target
\* type with payload value * pi/180 (degrees to radians) or value * 180/pi
\* (radians to degrees).
C3_NamedTargetUsesFormula ==
    ( /\ res.kind = "cast"
      /\ Len(res.targs) = 1
      /\ AngleUnit(res.targs[1])
      /\ res.targs[1] # res.args[1].type
      /\ res.targs[1].T = res.args[1].type.T ) =>
        LET a == res.args[1]
            T == a.type.T
        IN  /\ res.status = "ok"
            /\ res.type = res.targs[1]
            /\ a.type.Tag = "degrees_tag" =>
                  /\ res.fn = "degrees_to_radians"
                  /\ res.val \in Outcomes(FMul(T, a.val, PiOver180(T)))
            /\ a.type.Tag = "radians_tag" =>
                  /\ res.fn = "radians_to_degrees"
                  /\ res.val \in Outcomes(FMul(T, a.val, OneEightyOverPi(T)))

\* C4: converting a value x of a tagged type X to X itself is well-formed,
\* selects the identity overload (no formula, no failing generic overload),
\* and returns a value of type X with the payload of x.
C4_IdentityConversion ==
    (res.kind = "cast" /\ res.targs = << res.args[1].type >>) =>
        /\ res.status = "ok"
        /\ res.fn = "identity"
        /\ res.type = res.args[1].type
        /\ res.val = res.args[1].val

\* C4 witness: angle_cast<radians<float>>(x) was compiled for a radians<float> x
C4_Witness ==
    /\ res.kind = "cast"
    /\ res.targs = << radians("float") >>
    /\ res.args[1].type = radians("float")

\* C5 as stated: a conversion request naming a target whose precision
\* differs from the source's fails to compile with the static_assert
\* diagnostic "implement conversion from U to T".
C5_MismatchedPrecisionDiagnostic ==
    ( /\ res.kind = "cast"
      /\ Len(res.targs) = 1
      /\ AngleUnit(res.targs[1])
      /\ res.targs[1].T # res.args[1].type.T ) =>
        /\ res.status = "static_assert"
        /\ Rejected

\* C5, amended: a conversion request naming a target whose precision
\* differs from the source's fails to compile because no overload is viable
\* (so without the static_assert diagnostic); it selects no overload and
\* produces no value.  The static_assert diagnostic is given only for two
\* distinct tagged types of one precision.
C5_MismatchedPrecisionNoMatch ==
    res.kind = "cast" =>
        /\ ( /\ Len(res.targs) = 1
             /\ AngleUnit(res.targs[1])
             /\ res.targs[1].T # res.args[1].type.T ) =>
                /\ res.status = "no_match"
                /\ res.fn = "none"
                /\ Rejected
        /\ res.status = "static_assert" =>
                /\ Rejected
                /\ AngleUnit(res.targs[1])
                /\ res.targs[1] # res.args[1].type
                /\ res.targs[1].T = res.args[1].type.T

\* C5 witness: angle_cast<radians<double>>(x) was compiled for a degrees<float> x
C5_Witness ==
    /\ res.kind = "cast"
    /\ res.targs = << radians("double") >>
    /\ res.args[1].type = degrees("float")

\* C6: arithmetic closure.  For a, b of one tagged type and a scalar k of
\* its underlying type T: a + b, a - b, a * k, k * a and a / k are
\* well-formed, have that same tagged type, and have the payloads
\* a.value() + b.value(), a.value() - b.value(), a.value() * k (both
\* orders) and a.value() / k; no arithmetic result has another type than an
\* operand's tagged type.
C6_ArithmeticClosure ==
    (res.kind = "binary" /\ res.op \in ArithmeticOps) =>
        LET a == res.args[1]
            b == res.args[2]
            Is(V, v) == res.status = "ok" /\ res.type = V /\ res.val \in Outcomes(v)
        IN  /\ (res.op = "+" /\ a.type = b.type) =>
                  Is(a.type, FAdd(a.type.T, a.val, b.val))
            /\ (res.op = "-" /\ a.type = b.type) =>
                  Is(a.type, FSub(a.type.T, a.val, b.val))
            /\ (res.op = "*" /\ AngleUnit(a.type) /\ b.type = Scalar(a.type.T)) =>
                  Is(a.type, FMul(a.type.T, a.val, b.val))
            /\ (res.op = "*" /\ AngleUnit(b.type) /\ a.type = Scalar(b.type.T)) =>
                  Is(b.type, FMul(b.type.T, b.val, a.val))
            /\ (res.op = "/" /\ AngleUnit(a.type) /\ b.type = Scalar(a.type.T)) =>
                  Is(a.type, FDiv(a.type.T, a.val, b.val))
            /\ res.status = "ok" =>
                  AngleUnit(res.type) /\ res.type \in {a.type, b.type}

\* C6 witness: k * a was evaluated for a float scalar k and a degrees<float> a
C6_Witness ==
    /\ res.kind = "binary"
    /\ res.op = "*"
    /\ res.args[1].type = Scalar("float")
    /\ res.args[2].type = degrees("float")
    /\ res.status = "ok"

\* C7 as stated: for a, b of one tagged type, a < b iff a.value() <
\* b.value(), the three-way comparison puts every pair in exactly one of
\* the three cases less, equal, greater, and a == b is an expression.
C7_TotalOrdering ==
    ( /\ res.kind = "binary"
      /\ res.op \in {"<", ">", "<=>", "=="}
      /\ res.args[1].type = res.args[2].type ) =>
        LET x == res.args[1].val
            y == res.args[2].val
        IN  /\ res.status = "ok"
            /\ res.op = "<" => (res.bool = "true" <=> FLt(x, y))
            /\ res.op = ">" => (res.bool = "true" <=> FLt(y, x))
            /\ res.op = "<=>" => res.ord \in {"less", "equivalent", "greater"}

\* C7, amended: for a, b of one tagged type, a < b iff a.value() <
\* b.value() and a > b iff a.value() > b.value(); when neither payload is a
\* NaN, a <=> b is exactly one of less, equivalent, greater, matching the
\* payloads; when one is a NaN it is unordered, so none of a < b, a > b and
\* equivalence holds.  The class has no operator==: a == b and a != b are
\* rejected, equality is observed through a <=> b.
C7_PartialOrdering ==
    (res.kind = "binary" /\ res.args[1].type = res.args[2].type) =>
        LET x == res.args[1].val
            y == res.args[2].val
        IN  /\ res.op \in RelationalOps \cup {"<=>"} => res.status = "ok"
            /\ res.op = "<" => (res.bool = "true" <=> FLt(x, y))
            /\ res.op = ">" => (res.bool = "true" <=> FLt(y, x))
            /\ (res.op = "<=>" /\ ~IsNaN(x) /\ ~IsNaN(y)) =>
                  /\ res.ord \in {"less", "equivalent", "greater"}
                  /\ res.ord = "less" <=> FLt(x, y)
                  /\ res.ord = "greater" <=> FLt(y, x)
            /\ (res.op = "<=>" /\ (IsNaN(x) \/ IsNaN(y))) =>
                  res.ord = "unordered" /\ ~FLt(x, y) /\ ~FLt(y, x)
            /\ res.op \in EqualityOps => res.status = "no_match" /\ Rejected

\* C7 witness: a < b was evaluated, and held, for two values of one type
C7_Witness ==
    /\ res.kind = "binary"
    /\ res.op = "<"
    /\ res.args[1].type = res.args[2].type
    /\ res.bool = "true"

\* the text claim C8 gives: the number, then "rd" or the degree sign U+00B0
\* (bytes C2 B0 in UTF-8)
ClaimedText(V, x) ==
    NumberText(V.T, x)
    \o (IF V.Tag = "radians_tag" THEN << 114, 100 >> ELSE << 194, 176 >>)

\* C8: formatting a radians value gives the text of its payload followed by
\* "rd", formatting a degrees value the text of its payload followed by the
\* degree sign, and streaming a value to a stream that accepts output
\* appends the same text (after the fill characters of a pending field width).
C8_TextualRendering ==
    /\ res.kind = "format" =>
          res.text = ClaimedText(res.args[1].type, res.args[1].val)
    /\ (res.kind = "stream" /\ os[res.stream].good) =>
          LET t == ClaimedText(res.args[1].type, res.args[1].val)
              w == os[res.stream].bytes
          IN  /\ Len(w) >= Len(t)
              /\ SubSeq(w, Len(w) - Len(t) + 1, Len(w)) = t

\* the operations claim C9 calls pure
PureKinds == {"value", "unary", "binary", "cast", "trig"}

\* C9: a step that evaluates value(), a unary or binary operator, a
\* comparison, angle_cast or a trig function leaves every variable
\* unchanged.  A step that evaluates a @= b changes nothing but the payload
\* of its receiver a, which becomes (old payload of a) @ (payload of b);
\* with b being a itself, a += a doubles the payload.
C9_Frame ==
    [][ (res.kind = "none" /\ res'.kind # "none") =>
          /\ res'.kind \in PureKinds => vars' = vars
          /\ res'.kind = "compound" =>
                LET i == res'.args[1].ref
                    b == res'.args[2]
                    T == vars[i].type.T
                    x == vars[i].val
                    y == IF b.ref = 0 THEN Convert(T, b.val) ELSE vars[b.ref].val
                IN  /\ \A j \in VarIds \ {i} : vars'[j] = vars[j]
                    /\ vars'[i].type = vars[i].type
                    /\ res'.status # "ok" => vars' = vars
                    /\ (res'.status = "ok" /\ res'.op = "+=") =>
                          vars'[i].val \in Outcomes(FAdd(T, x, y))
                    /\ (res'.status = "ok" /\ res'.op = "-=") =>
                          vars'[i].val \in Outcomes(FSub(T, x, y))
                    /\ (res'.status = "ok" /\ res'.op = "*=") =>
                          vars'[i].val \in Outcomes(FMul(T, x, y))
                    /\ (res'.status = "ok" /\ res'.op = "/=") =>
                          vars'[i].val \in Outcomes(FDiv(T, x, y))
                    /\ (res'.op = "+=" /\ b.ref = i) =>
                          /\ res'.status = "ok"
                          /\ vars'[i].val \in Outcomes(FMul(T, x, FromInt(2)))
      ]_allvars

\* C9 witness: a += a was evaluated
C9_Witness ==
    /\ res.kind = "compound"
    /\ res.op = "+="
    /\ res.args[1].ref = res.args[2].ref
    /\ res.status = "ok"
    /\ vars[res.args[1].ref].val = FMul("double", res.args[1].val, FromInt(2))
    /\ ~IsZero(res.args[1].val)

\* C10: angle_cast(x) without a target type is well-formed: the generic
\* overload is no candidate, the call is not ambiguous and does not select
\* the identity overload.  For a degrees<T> x it selects the degrees to
\* radians formula and returns a radians<T> with payload x.value() * pi/180,
\* for a radians<T> x the radians to degrees formula and a degrees<T> with
\* payload x.value() * 180/pi.
C10_UntargetedCast ==
    (res.kind = "cast" /\ res.targs = << >>) =>
        LET a == res.args[1]
            T == a.type.T
        IN  /\ res.status = "ok"
            /\ "generic" \notin Viable(res.targs, a.type)
            /\ a.type.Tag = "degrees_tag" =>
                  /\ res.fn = "degrees_to_radians"
                  /\ res.type = radians(T)
                  /\ res.val \in Outcomes(FMul(T, a.val, PiOver180(T)))
            /\ a.type.Tag = "radians_tag" =>
                  /\ res.fn = "radians_to_degrees"
                  /\ res.type = degrees(T)
                  /\ res.val \in Outcomes(FMul(T, a.val, OneEightyOverPi(T)))

\* C10 witness: angle_cast(x) was evaluated for a degrees<float> x of 180
C10_Witness ==
    /\ res.kind = "cast"
    /\ res.targs = << >>
    /\ res.args[1].type = degrees("float")
    /\ res.args[1].val = FromInt(180)

====
